---- MODULE Spec2Model ----
(***************************************************************************)
(* Model of src/main.cpp: the Domain value type, the DomainChecker         *)
(* membership index and the batch driver in main().                        *)
(*                                                                         *)
(* A std::string is a sequence of one-character strings.  A std::set of    *)
(* strings is a strictly increasing sequence of strings (the order of      *)
(* std::less<std::string>).  A Domain object is a record with the single   *)
(* field reversed_domain_.                                                 *)
(***************************************************************************)
EXTENDS Integers, Sequences, FiniteSets, TLC

\* Bounds of the model.
MaxLen == 3
MaxBlock == 2
MaxLines == 5
MaxGarbage == 1

\* The characters a raw domain string of the unit-level specification uses.
Alphabet == {"a", "."}

RECURSIVE StringsOfLen(_)
StringsOfLen(n) ==
    IF n = 0 THEN {<<>>}
    ELSE {<<c>> \o s : c \in Alphabet, s \in StringsOfLen(n - 1)}

RawStrings == UNION {StringsOfLen(n) : n \in 0..MaxLen}

RECURSIVE ListsOfLen(_, _)
ListsOfLen(S, n) ==
    IF n = 0 THEN {<<>>}
    ELSE {<<x>> \o l : x \in S, l \in ListsOfLen(S, n - 1)}

ListsUpTo(S, n) == UNION {ListsOfLen(S, k) : k \in 0..n}

BlockLists == ListsUpTo(RawStrings, MaxBlock)

\* The lines standard input is made of: counts, domains, a domain with a
\* Windows line ending.  A line serves as a count or as a domain according to
\* where it stands.
InputLines ==
    {<<"0">>, <<"1">>, <<"2">>, <<"a">>, <<"a", ".", "a">>, <<"a", "\r">>}

\* The text of a stream holding the given lines, each ended by a newline
\* except, when newline_at_end is false, the last.
RECURSIVE StreamOf(_, _)
StreamOf(lines, newline_at_end) ==
    IF lines = <<>> THEN <<>>
    ELSE IF Len(lines) = 1
         THEN IF newline_at_end THEN lines[1] \o <<"\n">> ELSE lines[1]
    ELSE lines[1] \o <<"\n">> \o StreamOf(Tail(lines), newline_at_end)

Inputs == {StreamOf(ls, nl) : ls \in ListsUpTo(InputLines, MaxLines), nl \in BOOLEAN}

\* vector<Domain>::max_size(), above which reserve throws.  It is
\* (2^63 - 1) / 32 in the program; the model checker's integers are 32 bits
\* wide, so the model puts the limit at 2^30, far above every count the
\* bounded input can spell, and lets the one value AboveMaxSize stand for
\* every size_t above the limit.
VectorMaxSize == 2^30
AboveMaxSize == VectorMaxSize + 1

Range(s) == {s[k] : k \in 1..Len(s)}

(***************************************************************************)
(* std::string and std::set<std::string>                                   *)
(***************************************************************************)

\* The character codes that decide operator< on std::string.
CharCode(c) ==
    CASE c = "\n" -> 10
      [] c = "\r" -> 13
      [] c = "." -> 46
      [] c = "0" -> 48
      [] c = "1" -> 49
      [] c = "2" -> 50
      [] c = "a" -> 97
      [] c = "b" -> 98

RECURSIVE StrLess(_, _)
StrLess(s, t) ==
    IF t = <<>> THEN FALSE
    ELSE IF s = <<>> THEN TRUE
    ELSE IF s[1] = t[1] THEN StrLess(Tail(s), Tail(t))
    ELSE CharCode(s[1]) < CharCode(t[1])

\* set<string>::count
SetCount(set, key) == IF \E k \in 1..Len(set) : set[k] = key THEN 1 ELSE 0

\* An insert that assigns where it should add: the set is left holding
\* the new key alone.
SetInsertOverwrite(set, key) == <<key>>

\* set<string>::insert: no effect when the key is present, else the key goes
\* to its place in the order.
SetInsert(set, key) ==
    IF SetCount(set, key) > 0 THEN set
    ELSE LET below == Cardinality({k \in 1..Len(set) : StrLess(set[k], key)})
         IN  SubSeq(set, 1, below) \o <<key>> \o SubSeq(set, below + 1, Len(set))

(***************************************************************************)
(* getline(stream, part, delim) called in a loop until it fails            *)
(***************************************************************************)

\* Index of the first delim in s, 0 when there is none.
FindDelim(s, delim) ==
    IF \E k \in 1..Len(s) : s[k] = delim
    THEN CHOOSE k \in 1..Len(s) : s[k] = delim /\ \A j \in 1..(k - 1) : s[j] # delim
    ELSE 0

\* One call getline(stream, str, delim) on a stream whose unread text is buf
\* and whose state is "good", "eof" (eofbit alone) or "fail".  A stream that
\* is not good fails the call and leaves str as it was.  A good stream has
\* str erased; with nothing left to extract the call fails; text that ends
\* without a delimiter is extracted and sets eofbit.
Getline(buf, state, delim, str) ==
    IF state # "good"
    THEN [ok |-> FALSE, str |-> str, buf |-> buf, state |-> "fail"]
    ELSE IF buf = <<>>
    THEN [ok |-> FALSE, str |-> <<>>, buf |-> buf, state |-> "fail"]
    ELSE LET p == FindDelim(buf, delim)
         IN  IF p = 0
             THEN [ok |-> TRUE, str |-> buf, buf |-> <<>>, state |-> "eof"]
             ELSE [ok |-> TRUE, str |-> SubSeq(buf, 1, p - 1),
                   buf |-> SubSeq(buf, p + 1, Len(buf)), state |-> "good"]

\* The parts `while (getline(ss, part, delim))` yields, from a stream in
\* the given state.
RECURSIVE GetlineLoop(_, _, _)
GetlineLoop(buf, state, delim) ==
    LET r == Getline(buf, state, delim, <<>>)
    IN  IF r.ok THEN <<r.str>> \o GetlineLoop(r.buf, r.state, delim) ELSE <<>>

\* The same on a fresh stringstream holding s.
GetlineParts(s, delim) == GetlineLoop(s, "good", delim)

(***************************************************************************)
(* class Domain                                                            *)
(***************************************************************************)

\* The loop over parts.rbegin()..parts.rend() joining with '.'.
RECURSIVE JoinReversed(_)
JoinReversed(parts) ==
    IF parts = <<>> THEN <<>>
    ELSE IF Len(parts) = 1 THEN parts[1]
    ELSE parts[Len(parts)] \o <<".">> \o JoinReversed(SubSeq(parts, 1, Len(parts) - 1))

ReverseDomain(domain) == JoinReversed(GetlineParts(domain, "."))

Domain(domain) == [reversed_domain_ |-> ReverseDomain(domain)]

GetReversed(d) == d.reversed_domain_

\* Domain::operator==
DomainEq(d1, d2) == d1.reversed_domain_ = d2.reversed_domain_

(***************************************************************************)
(* class DomainChecker                                                     *)
(***************************************************************************)

\* The while loop of IsForbidden over the parts still to read.
RECURSIVE IsForbiddenLoop(_, _, _)
IsForbiddenLoop(set, parts, suffix) ==
    IF parts = <<>> THEN FALSE
    ELSE LET dotted == IF suffix # <<>> THEN suffix \o <<".">> ELSE suffix
             next == dotted \o Head(parts)
         IN  IF SetCount(set, next) > 0 THEN TRUE
             ELSE IsForbiddenLoop(set, Tail(parts), next)

IsForbidden(set, domain) ==
    IsForbiddenLoop(set, GetlineParts(GetReversed(domain), "."), <<>>)

\* The constructor run to completion on the range [from, end) of domains.
RECURSIVE CheckerOf(_, _)
CheckerOf(domains, set) ==
    IF domains = <<>> THEN set
    ELSE CheckerOf(Tail(domains), SetInsert(set, GetReversed(Head(domains))))

(***************************************************************************)
(* ReadNumberOnLine: std::istringstream(line) >> num for a size_t          *)
(***************************************************************************)

IsSpace(c) == c \in {"\r", "\n"}

IsDigit(c) == c \in {"0", "1", "2"}

DigitValue(c) == CharCode(c) - CharCode("0")

RECURSIVE SkipSpace(_)
SkipSpace(s) ==
    IF s # <<>> /\ IsSpace(s[1]) THEN SkipSpace(Tail(s)) ELSE s

\* The value of the longest run of digits s starts with, given the value acc
\* of the digits before it.
RECURSIVE DigitsValue(_, _)
DigitsValue(s, acc) ==
    IF s # <<>> /\ IsDigit(s[1])
    THEN DigitsValue(Tail(s), acc * 10 + DigitValue(s[1]))
    ELSE IF acc > VectorMaxSize THEN AboveMaxSize ELSE acc

\* What operator>> leaves in num.  The stream skips white space first; when
\* nothing follows, the extraction is not attempted and num keeps the
\* indeterminate value it was declared with (set |-> FALSE).  Text that does
\* not start with a digit stores 0.
ExtractNumber(str) ==
    LET rest == SkipSpace(str)
    IN  IF rest = <<>> THEN [set |-> FALSE, num |-> 0]
        ELSE IF IsDigit(rest[1]) THEN [set |-> TRUE, num |-> DigitsValue(rest, 0)]
        ELSE [set |-> TRUE, num |-> 0]

\* The values an uninitialized size_t is read as.
Indeterminate == (0..MaxGarbage) \cup {AboveMaxSize}

\* The removal of a trailing '\r' in ReadDomains.
StripCR(str) ==
    IF str # <<>> /\ str[Len(str)] = "\r" THEN SubSeq(str, 1, Len(str) - 1) ELSE str

VARIABLES
    pc,                   \* where control is
    input,                \* all of standard input, as it was at the start
    cin,                  \* the text of standard input not yet extracted
    cin_state,            \* "good", "eof" (eofbit alone) or "fail"
    num_line,             \* ReadNumberOnLine: line
    count,                \* ReadDomains: count
    i,                    \* ReadDomains: i
    line,                 \* ReadDomains: line
    domains,              \* ReadDomains: domains
    short_input,          \* history: a getline of ReadDomains found no line
    forbidden_domains,    \* the vector the checker is built from
    forbidden_reversed_,  \* DomainChecker::forbidden_reversed_
    begin,                \* the constructor's iterator, as an index
    test_domains,         \* main: test_domains
    qi,                   \* main: the position of the range-for loop
    cout,                 \* the lines written to standard output
    t_raw,                \* test block: the raw strings of the forbidden list
    t_query,              \* test block: the raw string queried
    t_domain,             \* test block: Domain(t_query)
    t_verdict             \* test block: the value IsForbidden returned

streamVars == <<cin, cin_state>>

readVars == <<num_line, count, i, line, domains, short_input>>

checkerVars == <<forbidden_domains, forbidden_reversed_, begin>>

queryVars == <<test_domains, qi, cout>>

testVars == <<t_raw, t_query, t_domain, t_verdict>>

vars == <<pc, input, streamVars, readVars, checkerVars, queryVars, testVars>>

(***************************************************************************)
(* main                                                                    *)
(***************************************************************************)

Init ==
    /\ pc = "main250_num"
    /\ input \in Inputs
    /\ cin = input
    /\ cin_state = "good"
    /\ num_line = <<>>
    /\ count = 0
    /\ i = 0
    /\ line = <<>>
    /\ domains = <<>>
    /\ short_input = FALSE
    /\ forbidden_domains = <<>>
    /\ forbidden_reversed_ = <<>>
    /\ begin = 1
    /\ test_domains = <<>>
    /\ qi = 1
    /\ cout = <<>>
    /\ t_raw = <<>>
    /\ t_query = <<>>
    /\ t_domain = Domain(<<>>)
    /\ t_verdict = FALSE

\* ReadNumberOnLine<size_t>(cin), the argument of a call of ReadDomains.
ReadNumberOnLine ==
    /\ pc \in {"main250_num", "main253_num"}
    /\ LET r == Getline(cin, cin_state, "\n", <<>>)
           x == ExtractNumber(r.str)
       IN  /\ cin' = r.buf
           /\ cin_state' = r.state
           /\ num_line' = r.str
           /\ IF x.set THEN count' = x.num ELSE count' \in Indeterminate
    /\ pc' = IF pc = "main250_num" THEN "main250_call" ELSE "main253_call"
    /\ UNCHANGED <<input, i, line, domains, short_input, checkerVars, queryVars,
                   testVars>>

\* ReadDomains up to its loop.  reserve throws std::length_error for a count
\* above max_size(); nothing catches it and the program is terminated.
ReadDomainsBegin ==
    /\ pc \in {"main250_call", "main253_call"}
    /\ IF count > VectorMaxSize
       THEN /\ pc' = "terminated"
            /\ UNCHANGED <<i, line, domains>>
       ELSE /\ pc' = IF pc = "main250_call" THEN "main250_read" ELSE "main253_read"
            /\ i' = 0
            /\ line' = <<>>
            /\ domains' = <<>>
    /\ UNCHANGED <<input, streamVars, num_line, count, short_input, checkerVars,
                   queryVars, testVars>>

\* One iteration of the loop of ReadDomains.
ReadDomainsLoop ==
    /\ pc \in {"main250_read", "main253_read"}
    /\ i < count
    /\ LET r == Getline(cin, cin_state, "\n", line)
       IN  /\ cin' = r.buf
           /\ cin_state' = r.state
           /\ line' = StripCR(r.str)
           /\ domains' = Append(domains, Domain(StripCR(r.str)))
           /\ short_input' = (short_input \/ ~r.ok)
    /\ i' = i + 1
    /\ UNCHANGED <<pc, input, num_line, count, checkerVars, queryVars, testVars>>

\* ReadDomains returns its vector, to forbidden_domains or to test_domains.
ReadDomainsReturn ==
    /\ pc \in {"main250_read", "main253_read"}
    /\ i >= count
    /\ IF pc = "main250_read"
       THEN /\ forbidden_domains' = domains
            /\ begin' = 1
            /\ pc' = "main251"
            /\ UNCHANGED <<test_domains, qi>>
       ELSE /\ test_domains' = domains
            /\ qi' = 1
            /\ pc' = "main254"
            /\ UNCHANGED <<forbidden_domains, begin>>
    /\ UNCHANGED <<input, streamVars, readVars, forbidden_reversed_, cout, testVars>>

\* One iteration of the constructor's while loop.
DomainCheckerInsert ==
    /\ pc \in {"main251", "test_ctor"}
    /\ begin <= Len(forbidden_domains)
    /\ forbidden_reversed_' =
           SetInsert(forbidden_reversed_, GetReversed(forbidden_domains[begin]))
    /\ begin' = begin + 1
    /\ UNCHANGED <<pc, input, streamVars, readVars, forbidden_domains, queryVars,
                   testVars>>

\* begin == end: the constructor returns.
DomainCheckerBuilt ==
    /\ pc \in {"main251", "test_ctor"}
    /\ begin > Len(forbidden_domains)
    /\ pc' = IF pc = "main251" THEN "main253_num" ELSE "test_assert"
    /\ UNCHANGED <<input, streamVars, readVars, checkerVars, queryVars, testVars>>

Token(forbidden) == IF forbidden THEN "Bad" ELSE "Good"

\* A loop body that prints the two tokens the wrong way round.
CheckSwapped ==
    /\ pc = "main254"
    /\ qi <= Len(test_domains)
    /\ cout' = Append(cout, Token(~IsForbidden(forbidden_reversed_, test_domains[qi])))
    /\ qi' = qi + 1
    /\ UNCHANGED <<pc, input, streamVars, readVars, checkerVars, test_domains,
                   testVars>>

\* A loop body that remembers each queried domain in the set of keys.
CheckCaching ==
    /\ pc = "main254"
    /\ qi <= Len(test_domains)
    /\ cout' = Append(cout, Token(IsForbidden(forbidden_reversed_, test_domains[qi])))
    /\ forbidden_reversed_' =
           SetInsert(forbidden_reversed_, GetReversed(test_domains[qi]))
    /\ qi' = qi + 1
    /\ UNCHANGED <<pc, input, streamVars, readVars, forbidden_domains, begin,
                   test_domains, testVars>>

\* One iteration of the loop of main: a verdict is written.
Check ==
    /\ pc = "main254"
    /\ qi <= Len(test_domains)
    /\ cout' = Append(cout, Token(IsForbidden(forbidden_reversed_, test_domains[qi])))
    /\ qi' = qi + 1
    /\ UNCHANGED <<pc, input, streamVars, readVars, checkerVars, test_domains,
                   testVars>>

\* The loop of main is over and main returns.
MainReturn ==
    /\ pc = "main254"
    /\ qi > Len(test_domains)
    /\ pc' = "done"
    /\ UNCHANGED <<input, streamVars, readVars, checkerVars, queryVars, testVars>>

Next ==
    \/ ReadNumberOnLine
    \/ ReadDomainsBegin
    \/ ReadDomainsLoop
    \/ ReadDomainsReturn
    \/ DomainCheckerInsert
    \/ DomainCheckerBuilt
    \/ Check
    \/ MainReturn

Spec == Init /\ [][Next]_vars

(***************************************************************************)
(* A test block of RunTests, for any forbidden list and any query          *)
(***************************************************************************)

TestInit ==
    /\ pc = "test"
    /\ t_raw \in BlockLists
    /\ input = <<>>
    /\ cin = <<>>
    /\ cin_state = "good"
    /\ num_line = <<>>
    /\ count = 0
    /\ i = 0
    /\ line = <<>>
    /\ domains = <<>>
    /\ short_input = FALSE
    /\ forbidden_domains = <<>>
    /\ forbidden_reversed_ = <<>>
    /\ begin = 1
    /\ test_domains = <<>>
    /\ qi = 1
    /\ cout = <<>>
    /\ t_query = <<>>
    /\ t_domain = Domain(<<>>)
    /\ t_verdict = FALSE

\* vector<Domain> forbidden = { Domain(..), .. };
TestForbidden ==
    /\ pc = "test"
    /\ forbidden_domains' = [k \in 1..Len(t_raw) |-> Domain(t_raw[k])]
    /\ begin' = 1
    /\ pc' = "test_ctor"
    /\ UNCHANGED <<input, streamVars, readVars, forbidden_reversed_, queryVars,
                   testVars>>

\* assert(checker.IsForbidden(Domain(q)) == ..)
TestIsForbidden ==
    /\ pc = "test_assert"
    /\ \E q \in RawStrings :
           /\ t_query' = q
           /\ t_domain' = Domain(q)
           /\ t_verdict' = IsForbidden(forbidden_reversed_, Domain(q))
    /\ pc' = "test_done"
    /\ UNCHANGED <<input, streamVars, readVars, checkerVars, queryVars, t_raw>>

TestNext ==
    \/ TestForbidden
    \/ DomainCheckerInsert
    \/ DomainCheckerBuilt
    \/ TestIsForbidden

TestSpec == TestInit /\ [][TestNext]_vars

(***************************************************************************)
(* Notions the properties are stated in                                    *)
(***************************************************************************)

Reverse(s) == [k \in 1..Len(s) |-> s[Len(s) + 1 - k]]

\* The pieces of s between its delimiters, every one of them: one more than
\* s has delimiters.
RECURSIVE Pieces(_, _)
Pieces(s, delim) ==
    LET p == FindDelim(s, delim)
    IN  IF p = 0 THEN <<s>>
        ELSE <<SubSeq(s, 1, p - 1)>> \o Pieces(SubSeq(s, p + 1, Len(s)), delim)

\* The label sequence of a raw domain string, top-level label first: its
\* dot-separated components, last one first.
Labels(raw) == Reverse(Pieces(raw, "."))

RECURSIVE JoinDots(_)
JoinDots(labels) ==
    IF Len(labels) = 1 THEN labels[1]
    ELSE labels[1] \o <<".">> \o JoinDots(Tail(labels))

IsPrefix(s, t) == Len(s) <= Len(t) /\ SubSeq(t, 1, Len(s)) = s

IsProperPrefix(s, t) == Len(s) < Len(t) /\ SubSeq(t, 1, Len(s)) = s

NonEmptyLabels(raw) == \A k \in 1..Len(Labels(raw)) : Labels(raw)[k] # <<>>

(***************************************************************************)
(* Properties of Domain and DomainChecker                                  *)
(***************************************************************************)

\* C1: when the label sequence of the query is the label sequence of some
\* entry of the block-list followed by one or more further labels,
\* IsForbidden returns true, whatever else the block-list holds.
C1_SubdomainBlocked ==
    pc = "test_done" =>
        \A k \in 1..Len(t_raw) :
            IsProperPrefix(Labels(t_raw[k]), Labels(t_query)) => t_verdict

\* C2: a checker built from a block-list that holds the domain D answers
\* true when asked about D itself, for every D the constructor can produce.
C2_Reflexive ==
    pc = "test_done" =>
        ((\E k \in 1..Len(forbidden_domains) :
              DomainEq(forbidden_domains[k], t_domain)) => t_verdict)

\* C3: when no entry's label sequence is a prefix of, or equal to, the
\* query's label sequence, label by label, IsForbidden returns false.
C3_NoPrefixNotForbidden ==
    pc = "test_done" =>
        ((\A k \in 1..Len(t_raw) : ~IsPrefix(Labels(t_raw[k]), Labels(t_query)))
            => ~t_verdict)

\* C6: the stored form of a domain is every dot-separated component of the
\* raw string, none left out, last component first, joined by dots.
C6_KeepsEveryLabel ==
    pc = "test_done" => GetReversed(t_domain) = JoinDots(Labels(t_query))

\* C7: two Domains are equal exactly when their raw strings are the same
\* string.
C7_EqualIffSameRaw ==
    pc = "test_done" =>
        \A k \in 1..Len(t_raw) :
            DomainEq(forbidden_domains[k], t_domain) <=> (t_raw[k] = t_query)

(***************************************************************************)
(* The same properties on regular domains: raw strings none of whose       *)
(* dot-separated components is empty                                       *)
(***************************************************************************)

RegularTest ==
    /\ pc = "test_done"
    /\ NonEmptyLabels(t_query)
    /\ \A k \in 1..Len(t_raw) : NonEmptyLabels(t_raw[k])

\* Subdomain blocking, reflexivity and the negative case together: on
\* regular domains IsForbidden is true exactly when some entry's label
\* sequence is a prefix of, or equal to, the query's.
Regular_ForbiddenIffPrefix ==
    RegularTest =>
        (t_verdict <=>
            \E k \in 1..Len(t_raw) : IsPrefix(Labels(t_raw[k]), Labels(t_query)))

\* On regular domains the stored form keeps every label, and equality of
\* Domains is identity of raw strings.
Regular_StoredForm ==
    RegularTest =>
        /\ GetReversed(t_domain) = JoinDots(Labels(t_query))
        /\ \A k \in 1..Len(t_raw) :
               DomainEq(forbidden_domains[k], t_domain) <=> (t_raw[k] = t_query)

Regular_Witness ==
    /\ RegularTest
    /\ t_verdict
    /\ \E k \in 1..Len(t_raw) : IsProperPrefix(Labels(t_raw[k]), Labels(t_query))

(***************************************************************************)
(* Notions the properties of main are stated in                            *)
(***************************************************************************)

\* The lines standard input holds: the pieces between its newlines, less
\* the empty piece after a final newline (or of an empty input).
LinesOf(text) ==
    LET ps == Pieces(text, "\n")
    IN  IF ps[Len(ps)] = <<>> THEN SubSeq(ps, 1, Len(ps) - 1) ELSE ps

\* The number a count line declares: -1 unless the line is one or more
\* digits and nothing else.
DeclaredCount(str) ==
    IF str # <<>> /\ \A k \in 1..Len(str) : IsDigit(str[k])
    THEN DigitsValue(str, 0)
    ELSE -1

\* The input, given as its lines ls, declares N, holds N block-list lines,
\* declares M and holds M query lines.
WellFormedLines(ls) ==
    /\ Len(ls) >= 1
    /\ DeclaredCount(ls[1]) >= 0
    /\ Len(ls) >= DeclaredCount(ls[1]) + 2
    /\ DeclaredCount(ls[DeclaredCount(ls[1]) + 2]) >= 0
    /\ Len(ls) >= DeclaredCount(ls[1]) + 2 + DeclaredCount(ls[DeclaredCount(ls[1]) + 2])

WellFormedInput == WellFormedLines(LinesOf(input))

\* The domains of the N block-list lines and of the k-th query line.
BlockListOf(ls) ==
    [k \in 1..DeclaredCount(ls[1]) |-> Domain(StripCR(ls[1 + k]))]

QueryOf(ls, k) == Domain(StripCR(ls[DeclaredCount(ls[1]) + 2 + k]))

(***************************************************************************)
(* Properties of main                                                      *)
(***************************************************************************)

\* C4: nothing but the tokens Bad and Good is ever written; on an input
\* that declares N block-list lines and M query lines and holds them, the
\* lines written so far are the verdicts of the first queries in input order,
\* Bad exactly when the checker built from all N entries forbids the query,
\* the run is not terminated, and at the end M lines have been written.
C4_BatchOutput ==
    /\ \A k \in 1..Len(cout) : cout[k] \in {"Bad", "Good"}
    /\ LET ls == LinesOf(input)
           M == DeclaredCount(ls[DeclaredCount(ls[1]) + 2])
           checker == CheckerOf(BlockListOf(ls), <<>>)
       IN  WellFormedLines(ls) =>
               /\ pc # "terminated"
               /\ Len(cout) <= M
               /\ \A k \in 1..Len(cout) :
                      cout[k] = Token(IsForbidden(checker, QueryOf(ls, k)))
               /\ pc = "done" => Len(cout) = M

\* C4 witness: a well-formed run that ended having written Bad, then Good.
C4_Witness ==
    /\ pc = "done"
    /\ WellFormedInput
    /\ forbidden_reversed_ # <<>>
    /\ cout = <<"Bad", "Good">>

\* The block-lists that hold the same set of domains as ds: its entries in
\* any order, each any number of times, up to one entry more than ds has.
SameSetLists(ds) ==
    {l \in ListsUpTo(Range(ds), Len(ds) + 1) : Range(l) = Range(ds)}

\* C5: every verdict written is the verdict of every checker built from a
\* block-list holding the same set of domains as the one that was read, in
\* any order and with any entry repeated.
C5_VerdictDependsOnSetOnly ==
    \A k \in 1..Len(cout) :
        \A l \in SameSetLists(forbidden_domains) :
            Token(IsForbidden(CheckerOf(l, <<>>), test_domains[k])) = cout[k]

\* C5 witness: a run whose block-list held two distinct domains, the
\* greater key first, and whose first query is forbidden by the second entry
\* and not by the first.
C5_Witness ==
    /\ pc = "done"
    /\ Len(forbidden_domains) = 2
    /\ StrLess(GetReversed(forbidden_domains[2]), GetReversed(forbidden_domains[1]))
    /\ Len(cout) >= 1
    /\ cout[1] = "Bad"
    /\ ~IsForbidden(<<GetReversed(forbidden_domains[1])>>, test_domains[1])
    /\ Cardinality(SameSetLists(forbidden_domains)) > 1

\* C8: when the count line declared a number and a getline of ReadDomains
\* then found no line to read, the run goes no further than that call of
\* ReadDomains: it is terminated, and neither builds the checker nor writes
\* verdicts nor ends normally.
C8_ShortInputIsFatal ==
    (short_input /\ DeclaredCount(num_line) >= 0) =>
        pc \in {"main250_read", "main253_read", "terminated"}

\* C9: ReadNumberOnLine hands a count to ReadDomains only when the line it
\* read is a non-negative integer; on a line of any other text the run
\* fails there.  (No line at all, which leaves the count indeterminate, is
\* left aside.)
C9_MalformedCountRejected ==
    (pc \in {"main250_call", "main253_call"} /\ num_line # <<>>) =>
        DeclaredCount(num_line) >= 0

\* C10: every step that changes the set of keys, and every step of the
\* constructor's loop of insertions, is taken before the first verdict; no
\* step that writes a verdict changes the set of keys; so each verdict
\* written is IsForbidden of its query on the set as it stands, however many
\* queries were answered before it.
C10_BuildThenReadOnlyQueries ==
    /\ [](\A k \in 1..Len(cout) :
              cout[k] = Token(IsForbidden(forbidden_reversed_, test_domains[k])))
    /\ [][/\ (forbidden_reversed_' # forbidden_reversed_ => cout' = <<>>)
          /\ (begin' # begin => cout' = <<>>)
          /\ (cout' # cout => forbidden_reversed_' = forbidden_reversed_)]_vars

\* C10 witness: a run that built a checker holding a key and then answered
\* the same query twice, a query the checker does not forbid.
C10_Witness ==
    /\ pc = "done"
    /\ forbidden_reversed_ # <<>>
    /\ Len(test_domains) = 2
    /\ test_domains[1] = test_domains[2]
    /\ cout = <<"Good", "Good">>

====
